---- MODULE Spec2Model ----
(***************************************************************************)
(* The query-resolution pipeline of the Bundesliga coach RAG chatbot:      *)
(* BundesligaCoachRAGChatbot (main.py) with its collaborators              *)
(* EntityExtractor, WikidataClient, WikipediaClient and PromptBuilder.     *)
(*                                                                         *)
(* Text is modelled as a sequence of characters (one-character strings).   *)
(* The fixed literals of the code's templates (the system prompt, the      *)
(* error sentences, the section headers) are single symbols of that        *)
(* alphabet: a template is the concatenation of its literal symbols and    *)
(* of the characters of the values it interpolates.                        *)
(*                                                                         *)
(* The source's backquote (in "Germany's") is written as an apostrophe.    *)
(*                                                                         *)
(* Python's Optional[T] is a sequence of length at most one: None is <<>>  *)
(* and a value v is <<v>>.                                                 *)
(***************************************************************************)
EXTENDS Integers, Sequences, FiniteSets, TLC

None == <<>>
Some(v) == <<v>>

(***************************************************************************)
(* The dicts and results of the code, as records.                          *)
(***************************************************************************)
\* one component call of an operation: the stage, the argument passed,
\* whether the call raised, and its Optional result
Event(s, a, r, o) == [stage |-> s, arg |-> a, raised |-> r, out |-> o]

\* what a client method does: it raises, or returns value
Returned(r, v) == [raised |-> r, value |-> v]

\* what an operation of the orchestrator does: whether an exception leaves
\* it, what it returns, the cache it leaves in self.clubs_cache, its events
CallResult(x, t, c, e) == [escaped |-> x, ret |-> t, cache |-> c, events |-> e]

\* what the try block of process_query does: it raises, or returns ret
TryResult(r, t, e) == [raised |-> r, ret |-> t, events |-> e]

\* a reply of the SPARQL endpoint
SparqlReply(e, h, b) == [error |-> e, has_results |-> h, bindings |-> b]

\* a binding of the roster query and one of the coach query
ClubRow(u, l, c) == [club |-> u, clubLabel |-> l, cityLabel |-> c]
CoachRow(u, l) == [coach |-> u, coachLabel |-> l]

\* the club_info dict of _process_club_results
ClubInfo(n, c, u, q) == [club_name |-> n, city |-> c, club_uri |-> u, club_qid |-> q]

\* the coach_info dict of _process_coach_results
CoachInfo(n, q) == [name |-> n, qid |-> q]

\* a reply of the Wikipedia API and a page of its body
WikiReply(o, p) == [outcome |-> o, pages |-> p]
Page(i, x) == [page_id |-> i, extract |-> x]

\* what wikipediaapi gives for a title: page.exists() raises, or answers,
\* and page.summary
WikiPage(e, f, t) == [error |-> e, exists |-> f, summary |-> t]

(***************************************************************************)
(* Characters and the str methods the code uses.                           *)
(***************************************************************************)
UpperChars ==
    <<"A", "B", "C", "D", "E", "F", "G", "H", "I", "J", "K", "L", "M",
      "N", "O", "P", "Q", "R", "S", "T", "U", "V", "W", "X", "Y", "Z">>

LowerChars ==
    <<"a", "b", "c", "d", "e", "f", "g", "h", "i", "j", "k", "l", "m",
      "n", "o", "p", "q", "r", "s", "t", "u", "v", "w", "x", "y", "z">>

DigitChars == {"0", "1", "2", "3", "4", "5", "6", "7", "8", "9"}

Range(s) == {s[i] : i \in 1..Len(s)}

\* the lower-case letter of each upper-case letter
LowerOf ==
    [c \in Range(UpperChars) |->
        LowerChars[CHOOSE i \in 1..Len(UpperChars) : UpperChars[i] = c]]

\* str.lower() on one character
LowerChar(c) == IF c \in DOMAIN LowerOf THEN LowerOf[c] ELSE c

\* str.lower()
RECURSIVE Lower(_)
Lower(s) == IF s = <<>> THEN <<>> ELSE <<LowerChar(Head(s))>> \o Lower(Tail(s))

\* the regular expression class \w
WordChars == Range(UpperChars) \cup Range(LowerChars) \cup DigitChars \cup {"_"}

IsWordChar(c) == c \in WordChars

\* the regular expression class \s, and the characters str.strip() removes
SpaceChars == {" ", "\t", "\n", "\r"}

IsSpaceChar(c) == c \in SpaceChars

RECURSIVE LStrip(_)
LStrip(s) == IF s # <<>> /\ IsSpaceChar(Head(s)) THEN LStrip(Tail(s)) ELSE s

RECURSIVE RStrip(_)
RStrip(s) ==
    IF s # <<>> /\ IsSpaceChar(s[Len(s)]) THEN RStrip(SubSeq(s, 1, Len(s) - 1)) ELSE s

\* str.strip()
Strip(s) == RStrip(LStrip(s))

\* s[i:].startswith(lit), positions counted from 1
StartsWithAt(s, i, lit) ==
    /\ i + Len(lit) - 1 <= Len(s)
    /\ \A j \in 1..Len(lit) : s[i + j - 1] = lit[j]

\* Python's "a in b" on strings
IsSubstr(a, b) == \E i \in 1..(Len(b) - Len(a) + 1) : StartsWithAt(b, i, a)

\* str.split('/')[-1]: what follows the last '/'
RECURSIVE LastSegment(_)
LastSegment(s) ==
    IF \E i \in 1..Len(s) : s[i] = "/"
    THEN LastSegment(SubSeq(s, (CHOOSE i \in 1..Len(s) : s[i] = "/") + 1, Len(s)))
    ELSE s

\* Python truthiness of an Optional[str], Optional[dict] or Optional[list]:
\* None and the empty value are both false
Truthy(opt) == opt # None /\ opt[1] # <<>>

(***************************************************************************)
(* EntityExtractor                                                         *)
(***************************************************************************)
\* length of the longest run of \w characters of s that starts at i
RECURSIVE WordRun(_, _)
WordRun(s, i) == IF i <= Len(s) /\ IsWordChar(s[i]) THEN 1 + WordRun(s, i + 1) ELSE 0

\* length of the longest run of \s characters of s that starts at i
RECURSIVE SpaceRun(_, _)
SpaceRun(s, i) == IF i <= Len(s) /\ IsSpaceChar(s[i]) THEN 1 + SpaceRun(s, i + 1) ELSE 0

\* \s+(\w+) matched at position p: the capture, or None.  Both quantifiers
\* are greedy and the two classes are disjoint, so the only match takes
\* the whole run of spaces and then the whole run of word characters.
SpacesThenWord(s, p) ==
    LET sp == SpaceRun(s, p)
        w  == WordRun(s, p + sp)
    IN  IF sp >= 1 /\ w >= 1 THEN Some(SubSeq(s, p + sp, p + sp + w - 1)) ELSE None

\* kw\s+(\w+) matched at position i
KeywordAt(s, i, kw) ==
    IF StartsWithAt(s, i, kw) THEN SpacesThenWord(s, i + Len(kw)) ELSE None

\* coach(?:ing)?\s+(\w+) matched at position i: the optional group is tried
\* first (greedy), then skipped
CoachAt(s, i) ==
    LET coach == <<"c", "o", "a", "c", "h">>
        ing   == <<"i", "n", "g">>
        with  == IF StartsWithAt(s, i, coach \o ing)
                 THEN SpacesThenWord(s, i + Len(coach) + Len(ing)) ELSE None
    IN  IF with # None THEN with ELSE KeywordAt(s, i, coach)

\* s?\s+manager matched at position p
ManagerTailAt(s, p) ==
    LET manager == <<"m", "a", "n", "a", "g", "e", "r">>
        rest(q) == SpaceRun(s, q) >= 1 /\ StartsWithAt(s, q + SpaceRun(s, q), manager)
    IN  \/ (p <= Len(s) /\ s[p] = "s" /\ rest(p + 1))
        \/ rest(p)

\* (\w+)s?\s+manager matched at position i: \w+ is greedy, so the capture is
\* the longest run of word characters after which the rest still matches
ManagerAt(s, i) ==
    LET ks == {k \in 1..WordRun(s, i) : ManagerTailAt(s, i + k)}
    IN  IF ks = {} THEN None
        ELSE Some(SubSeq(s, i, i + (CHOOSE k \in ks : \A j \in ks : j <= k) - 1))

\* re.search: the match at the leftmost position where the pattern matches
\* matches[i] is what the pattern gives when tried at position i
SearchFrom(matches) ==
    LET hits == {i \in DOMAIN matches : matches[i] # None}
    IN  IF hits = {} THEN None
        ELSE matches[CHOOSE i \in hits : \A j \in hits : i <= j]

AboutAt(s, i) == KeywordAt(s, i, <<"a", "b", "o", "u", "t">>)
ForAt(s, i) == KeywordAt(s, i, <<"f", "o", "r">>)
InAt(s, i) == KeywordAt(s, i, <<"i", "n">>)

\* _extract_entity_logic with the about pattern tried before the coach pattern
extract_entity_logic_about_first(normalized_question) ==
    LET positions == 1..Len(normalized_question)
        m1 == SearchFrom([i \in positions |-> CoachAt(normalized_question, i)])
        m2 == SearchFrom([i \in positions |-> AboutAt(normalized_question, i)])
        m3 == SearchFrom([i \in positions |-> ManagerAt(normalized_question, i)])
        m4 == SearchFrom([i \in positions |-> ForAt(normalized_question, i)])
        m5 == SearchFrom([i \in positions |-> InAt(normalized_question, i)])
    IN  IF m2 # None THEN m2
        ELSE IF m1 # None THEN m1
        ELSE IF m3 # None THEN m3
        ELSE IF m4 # None THEN m4
        ELSE IF m5 # None THEN m5
        ELSE None

\* EntityExtractor._extract_entity_logic
extract_entity_logic(normalized_question) ==
    LET positions == 1..Len(normalized_question)
        m1 == SearchFrom([i \in positions |-> CoachAt(normalized_question, i)])
        m2 == SearchFrom([i \in positions |-> AboutAt(normalized_question, i)])
        m3 == SearchFrom([i \in positions |-> ManagerAt(normalized_question, i)])
        m4 == SearchFrom([i \in positions |-> ForAt(normalized_question, i)])
        m5 == SearchFrom([i \in positions |-> InAt(normalized_question, i)])
    IN  IF m1 # None THEN m1
        ELSE IF m2 # None THEN m2
        ELSE IF m3 # None THEN m3
        ELSE IF m4 # None THEN m4
        ELSE IF m5 # None THEN m5
        ELSE None

\* EntityExtractor.extract_city
extract_city(user_question) == extract_entity_logic(Strip(Lower(user_question)))

(***************************************************************************)
(* BundesligaCoachRAGChatbot.find_club_by_city                             *)
(***************************************************************************)
\* the first element of list, in stored order, among those at the
\* positions hits (the positions whose element passes the loop's test)
FirstThat(list, hits) ==
    IF hits = {} THEN None
    ELSE Some(list[CHOOSE i \in hits : \A j \in hits : i <= j])

\* the test of the special-case loop
NameHasPauli(club) == IsSubstr(<<"p", "a", "u", "l", "i">>, Lower(club.club_name))

\* the test of the normal-case loop
ClubMatches(club, city_identifier) ==
    \/ IsSubstr(city_identifier, Lower(club.city))
    \/ IsSubstr(Lower(club.city), city_identifier)
    \/ IsSubstr(city_identifier, Lower(club.club_name))

\* find_club_by_city without the special case for "pauli"
find_club_by_city_no_special(cache, city_identifier) ==
    IF ~Truthy(cache) THEN None
    ELSE LET clubs  == cache[1]
             normal == {i \in 1..Len(clubs) : ClubMatches(clubs[i], city_identifier)}
         IN  FirstThat(clubs, normal)

\* find_club_by_city whose normal-case loop tests the city only, not the
\* club name
find_club_by_city_city_only(cache, city_identifier) ==
    IF ~Truthy(cache) THEN None
    ELSE LET clubs   == cache[1]
             special == IF city_identifier = <<"p", "a", "u", "l", "i">>
                        THEN FirstThat(clubs, {i \in 1..Len(clubs) : NameHasPauli(clubs[i])})
                        ELSE None
             normal  == {i \in 1..Len(clubs) :
                           \/ IsSubstr(city_identifier, Lower(clubs[i].city))
                           \/ IsSubstr(Lower(clubs[i].city), city_identifier)}
         IN  IF special # None THEN special ELSE FirstThat(clubs, normal)

find_club_by_city(cache, city_identifier) ==
    IF ~Truthy(cache) THEN None
    ELSE LET clubs   == cache[1]
             special == IF city_identifier = <<"p", "a", "u", "l", "i">>
                        THEN FirstThat(clubs, {i \in 1..Len(clubs) : NameHasPauli(clubs[i])})
                        ELSE None
             normal  == {i \in 1..Len(clubs) : ClubMatches(clubs[i], city_identifier)}
         IN  IF special # None THEN special ELSE FirstThat(clubs, normal)

(***************************************************************************)
(* WikidataClient.  A reply of the SPARQL endpoint is what                 *)
(* self.sparql.query().convert() does: it raises (error), or it returns a  *)
(* JSON object that may lack the 'results'/'bindings' keys (has_results)   *)
(* and otherwise holds the list of bindings.  A field of a binding is      *)
(* None when the row lacks that key.                                       *)
(***************************************************************************)
\* binding.get(key, {}).get('value', '')
ValueOf(field) == IF field = None THEN <<>> ELSE field[1]

\* the loop of _process_club_results without its test of club_name and
\* club_qid: every row is appended
RECURSIVE KeptClubs_keep_all(_)
KeptClubs_keep_all(bindings) ==
    IF bindings = <<>> THEN <<>>
    ELSE LET binding   == Head(bindings)
             club_uri  == ValueOf(binding.club)
             club_qid  == IF club_uri # <<>> THEN LastSegment(club_uri) ELSE <<>>
             club_name == ValueOf(binding.clubLabel)
             city_name == ValueOf(binding.cityLabel)
             club_info == ClubInfo(club_name,
                                   IF city_name # <<>> THEN city_name
                                   ELSE <<"U", "n", "k", "n", "o", "w", "n">>,
                                   club_uri, club_qid)
         IN  <<club_info>> \o KeptClubs_keep_all(Tail(bindings))

\* the loop of _process_club_results without the default 'Unknown': a
\* missing city is stored as the empty string
RECURSIVE KeptClubs_empty_city(_)
KeptClubs_empty_city(bindings) ==
    IF bindings = <<>> THEN <<>>
    ELSE LET binding   == Head(bindings)
             club_uri  == ValueOf(binding.club)
             club_qid  == IF club_uri # <<>> THEN LastSegment(club_uri) ELSE <<>>
             club_name == ValueOf(binding.clubLabel)
             city_name == ValueOf(binding.cityLabel)
             club_info == ClubInfo(club_name, city_name, club_uri, club_qid)
         IN  (IF club_name # <<>> /\ club_qid # <<>> THEN <<club_info>> ELSE <<>>)
             \o KeptClubs_empty_city(Tail(bindings))

\* the rows WikidataClient._process_club_results keeps, in response order
RECURSIVE KeptClubs(_)
KeptClubs(bindings) ==
    IF bindings = <<>> THEN <<>>
    ELSE LET binding   == Head(bindings)
             club_uri  == ValueOf(binding.club)
             club_qid  == IF club_uri # <<>> THEN LastSegment(club_uri) ELSE <<>>
             club_name == ValueOf(binding.clubLabel)
             city_name == ValueOf(binding.cityLabel)
             club_info == ClubInfo(club_name,
                                   IF city_name # <<>> THEN city_name
                                   ELSE <<"U", "n", "k", "n", "o", "w", "n">>,
                                   club_uri, club_qid)
         IN  (IF club_name # <<>> /\ club_qid # <<>> THEN <<club_info>> ELSE <<>>)
             \o KeptClubs(Tail(bindings))

\* WikidataClient._process_club_results
process_club_results(results) ==
    IF ~results.has_results THEN <<>> ELSE KeptClubs(results.bindings)

\* WikidataClient.get_bundesliga_clubs
get_bundesliga_clubs(reply) ==
    IF reply.error THEN Returned(TRUE, <<>>)
    ELSE Returned(FALSE, process_club_results(reply))

\* WikidataClient._process_coach_results: Optional[coach]
process_coach_results(results) ==
    IF ~results.has_results THEN None
    ELSE IF results.bindings = <<>> THEN None
    ELSE LET binding    == results.bindings[1]
             coach_name == ValueOf(binding.coachLabel)
             coach_uri  == ValueOf(binding.coach)
             coach_qid  == IF coach_uri # <<>> THEN LastSegment(coach_uri) ELSE <<>>
         IN  IF coach_name # <<>>
             THEN Some(CoachInfo(coach_name, coach_qid))
             ELSE None

\* WikidataClient.get_coach_for_club
get_coach_for_club(club_qid, reply) ==
    IF reply.error THEN Returned(TRUE, None)
    ELSE Returned(FALSE, process_coach_results(reply))

(***************************************************************************)
(* WikipediaClient (wikipedia_client.py).  A reply is the outcome of       *)
(* requests.get / raise_for_status / json: "timeout", "request_exception", *)
(* "other_exception", or "ok" with the pages of the JSON body in order.    *)
(***************************************************************************)
\* the loop of WikipediaClient._extract_intro_from_response
RECURSIVE IntroOfPages(_)
IntroOfPages(pages) ==
    IF pages = <<>> THEN None
    ELSE LET page    == Head(pages)
             extract == ValueOf(page.extract)
         IN  IF page.page_id = <<"-", "1">> THEN None
             ELSE IF extract # <<>> THEN Some(Strip(extract))
             ELSE IntroOfPages(Tail(pages))

\* WikipediaClient._extract_intro_from_response: a body that is not the
\* expected structure raises inside its try block and gives None
extract_intro_from_response(data) ==
    IF data.outcome = "malformed" THEN None ELSE IntroOfPages(data.pages)

\* get_coach_intro with the clause for requests.RequestException only: a
\* body that is no JSON raises past it
get_coach_intro_requests_only(coach_name, reply) ==
    IF reply.outcome = "timeout" THEN Returned(FALSE, None)
    ELSE IF reply.outcome = "request_exception" THEN Returned(FALSE, None)
    ELSE IF reply.outcome = "other_exception" THEN Returned(TRUE, None)
    ELSE Returned(FALSE, extract_intro_from_response(reply))

\* WikipediaClient.get_coach_intro: the three except clauses return None
get_coach_intro(coach_name, reply) ==
    IF reply.outcome = "timeout" THEN Returned(FALSE, None)
    ELSE IF reply.outcome = "request_exception" THEN Returned(FALSE, None)
    ELSE IF reply.outcome = "other_exception" THEN Returned(FALSE, None)
    ELSE Returned(FALSE, extract_intro_from_response(reply))

\* WikipediaClient.get_coach_intro of wikipedia_client_alternative.py
get_coach_intro_alternative(coach_name, page) ==
    IF page.error THEN Returned(FALSE, None)
    ELSE IF ~page.exists THEN Returned(FALSE, None)
    ELSE IF page.summary # <<>> THEN Returned(FALSE, Some(Strip(page.summary)))
    ELSE Returned(FALSE, None)

(***************************************************************************)
(* PromptBuilder                                                           *)
(***************************************************************************)
NL == "\n"

\* PromptBuilder._get_system_prompt
get_system_prompt ==
    <<"SYSTEM PROMPT:", NL,
      "You are a helpful assistant an expert in Germany's 1. Bundesliga football (soccer).", NL,
      "You answer questions about coaches of clubs in Germany's 1. Bundesliga.", NL,
      "You must use only the information provided in the retrieved context below. You must never assume.", NL,
      "Be concise but informative in your responses.", NL,
      "Provide the coach's name and relevant information about them.">>

\* sep.join(parts)
RECURSIVE Join(_, _)
Join(parts, sep) ==
    IF parts = <<>> THEN <<>>
    ELSE IF Len(parts) = 1 THEN parts[1]
    ELSE parts[1] \o sep \o Join(Tail(parts), sep)

NoBiographySentence ==
    "Coach Information: No additional biographical information available from Wikipedia."

\* PromptBuilder._build_context
build_context(club_name, city, coach_name, coach_intro) ==
    LET context_parts ==
            << <<"City: ">> \o city,
               <<"Club: ">> \o club_name,
               <<"Current Coach: ">> \o coach_name >>
        last ==
            IF Truthy(coach_intro)
            THEN <<NL, "Coach Information from Wikipedia:", NL>> \o coach_intro[1]
            ELSE <<NL, NoBiographySentence>>
    IN  Join(Append(context_parts, last), <<NL>>)

\* build_prompt with the question stripped before it is rendered
build_prompt_stripped_question(user_question, club_name, city, coach_name, coach_intro) ==
    get_system_prompt
      \o <<NL, NL, "RETRIEVED CONTEXT:", NL>>
      \o build_context(club_name, city, coach_name, coach_intro)
      \o <<NL, NL, "USER QUESTION:", NL>>
      \o Strip(user_question)
      \o <<NL, NL, "Please answer the user's question using the provided context.">>

\* build_prompt with the question section before the context section
build_prompt_question_first(user_question, club_name, city, coach_name, coach_intro) ==
    get_system_prompt
      \o <<NL, NL, "USER QUESTION:", NL>>
      \o user_question
      \o <<NL, NL, "RETRIEVED CONTEXT:", NL>>
      \o build_context(club_name, city, coach_name, coach_intro)
      \o <<NL, NL, "Please answer the user's question using the provided context.">>

\* PromptBuilder.build_prompt
build_prompt(user_question, club_name, city, coach_name, coach_intro) ==
    get_system_prompt
      \o <<NL, NL, "RETRIEVED CONTEXT:", NL>>
      \o build_context(club_name, city, coach_name, coach_intro)
      \o <<NL, NL, "USER QUESTION:", NL>>
      \o user_question
      \o <<NL, NL, "Please answer the user's question using the provided context.">>

(***************************************************************************)
(* BundesligaCoachRAGChatbot: the orchestrator.  An operation returns,     *)
(* with its return value, the cache it leaves in self.clubs_cache and the  *)
(* events of the call: one per component call it made, in call order.      *)
(***************************************************************************)
\* initialize_clubs_data whose except clause leaves the cache as it was
initialize_clubs_data_keeps_stale(cache, reply) ==
    LET fetch == get_bundesliga_clubs(reply)
        event == Event("roster", <<>>, fetch.raised,
                       IF fetch.raised THEN None ELSE Some(fetch.value))
    IN  IF fetch.raised
        THEN CallResult(FALSE, FALSE, cache, <<event>>)
        ELSE CallResult(FALSE, Truthy(Some(fetch.value)), Some(fetch.value), <<event>>)

\* BundesligaCoachRAGChatbot.initialize_clubs_data
initialize_clubs_data(cache, reply) ==
    LET fetch == get_bundesliga_clubs(reply)
        event == Event("roster", <<>>, fetch.raised,
                       IF fetch.raised THEN None ELSE Some(fetch.value))
    IN  IF fetch.raised
        THEN CallResult(FALSE, FALSE, None, <<event>>)
        ELSE IF ~Truthy(Some(fetch.value))
        THEN CallResult(FALSE, FALSE, Some(fetch.value), <<event>>)
        ELSE CallResult(FALSE, TRUE, Some(fetch.value), <<event>>)

\* BundesligaCoachRAGChatbot._format_error_response
format_error_response(error_message) ==
    <<"ERROR: ">> \o error_message
      \o <<NL, NL,
           "Dear user, the Germany's 1. Bundesliga RAG-Chatbot system was unable to retrieve the necessary information to answer your question.", NL,
           "Please check your input and try again.", NL, NL,
           "Examples of valid questions:", NL,
           "  - Who is coaching Berlin?", NL,
           "  - What about munich?", NL,
           "  - Who is heidenheims manager?", NL,
           "  - Who is it for Pauli?">>

\* the error_msg values of process_query
MsgNoCity ==
    <<"Dear user, I could not identify a city or club in your question. Please, use the required question format and specify which city or club you're asking about.">>

MsgNoClub(city_identifier) ==
    <<"Dear user, I could not find a Bundesliga club for '">>
      \o city_identifier
      \o <<"'. Please, use the required question format or check the city name.">>

MsgNoCoach(club_name) ==
    <<"Could not find current coach information for ">>
      \o club_name
      \o <<". The data may not be available in Wikidata.">>

MsgUnexpected ==
    <<"Dear user, an unexpected error occurred while processing your question. Please try again.">>

\* steps 4 and 5 of process_query, an absent biography treated as an error
AnswerWithCoach_needs_bio(user_question, club_info, coach_info, bio_reply, so_far) ==
    LET fetch       == get_coach_intro(coach_info.name, bio_reply)
        coach_intro == fetch.value
        bio_event   == Event("bio", coach_info.name, fetch.raised, coach_intro)
    IN  IF fetch.raised
        THEN TryResult(TRUE, <<>>, Append(so_far, bio_event))
        ELSE IF ~Truthy(coach_intro)
        THEN TryResult(FALSE, format_error_response(MsgNoCoach(club_info.club_name)),
                       Append(so_far, bio_event))
        ELSE TryResult(FALSE,
                       build_prompt(user_question, club_info.club_name, club_info.city,
                                    coach_info.name, coach_intro),
                       so_far \o <<bio_event, Event("render", user_question, FALSE, None)>>)

\* steps 4 and 5 of process_query, the biography asked for the club's name
\* instead of the coach's
AnswerWithCoach_bio_for_club(user_question, club_info, coach_info, bio_reply, so_far) ==
    LET fetch       == get_coach_intro(club_info.club_name, bio_reply)
        coach_intro == fetch.value
        bio_event   == Event("bio", club_info.club_name, fetch.raised, coach_intro)
        final_prompt ==
            build_prompt(user_question, club_info.club_name, club_info.city,
                         coach_info.name, coach_intro)
    IN  IF fetch.raised
        THEN TryResult(TRUE, <<>>, Append(so_far, bio_event))
        ELSE TryResult(FALSE, final_prompt,
                       so_far \o <<bio_event, Event("render", user_question, FALSE, None)>>)

\* steps 4 and 5 of process_query, reached with a club and a coach
AnswerWithCoach(user_question, club_info, coach_info, bio_reply, so_far) ==
    LET fetch       == get_coach_intro(coach_info.name, bio_reply)
        coach_intro == fetch.value
        bio_event   == Event("bio", coach_info.name, fetch.raised, coach_intro)
        final_prompt ==
            build_prompt(user_question, club_info.club_name, club_info.city,
                         coach_info.name, coach_intro)
    IN  IF fetch.raised
        THEN TryResult(TRUE, <<>>, Append(so_far, bio_event))
        ELSE TryResult(FALSE, final_prompt,
                       so_far \o <<bio_event, Event("render", user_question, FALSE, None)>>)

\* step 3 of process_query, the biography fetched before the coach is checked
AnswerWithClub_eager_bio(user_question, club_info, coach_reply, bio_reply, so_far) ==
    LET fetch       == get_coach_for_club(club_info.club_qid, coach_reply)
        coach_event == Event("coach", club_info.club_qid, fetch.raised, fetch.value)
        wanted      == IF Truthy(fetch.value) THEN fetch.value[1].name
                       ELSE club_info.club_name
        coach_intro == get_coach_intro(wanted, bio_reply).value
        bio_event   == Event("bio", wanted, FALSE, coach_intro)
    IN  IF fetch.raised
        THEN TryResult(TRUE, <<>>, Append(so_far, coach_event))
        ELSE IF ~Truthy(fetch.value)
        THEN TryResult(FALSE, format_error_response(MsgNoCoach(club_info.club_name)),
                       so_far \o <<coach_event, bio_event>>)
        ELSE TryResult(FALSE,
                       build_prompt(user_question, club_info.club_name, club_info.city,
                                    wanted, coach_intro),
                       so_far \o <<coach_event, bio_event,
                                   Event("render", user_question, FALSE, None)>>)

\* step 3 of process_query, an empty coach result fetched a second time
AnswerWithClub_retry(user_question, club_info, coach_reply, bio_reply, so_far) ==
    LET fetch       == get_coach_for_club(club_info.club_qid, coach_reply)
        coach_event == Event("coach", club_info.club_qid, fetch.raised, fetch.value)
    IN  IF fetch.raised
        THEN TryResult(TRUE, <<>>, Append(so_far, coach_event))
        ELSE IF ~Truthy(fetch.value)
        THEN TryResult(FALSE, format_error_response(MsgNoCoach(club_info.club_name)),
                       so_far \o <<coach_event, coach_event>>)
        ELSE AnswerWithCoach(user_question, club_info, fetch.value[1], bio_reply,
                             Append(so_far, coach_event))

\* step 3 of process_query, a missing coach raised as an exception
AnswerWithClub_miss_raises(user_question, club_info, coach_reply, bio_reply, so_far) ==
    LET fetch       == get_coach_for_club(club_info.club_qid, coach_reply)
        coach_event == Event("coach", club_info.club_qid, fetch.raised, fetch.value)
    IN  IF fetch.raised \/ ~Truthy(fetch.value)
        THEN TryResult(TRUE, <<>>, Append(so_far, coach_event))
        ELSE AnswerWithCoach(user_question, club_info, fetch.value[1], bio_reply,
                             Append(so_far, coach_event))

\* step 3 of process_query, reached with a club
AnswerWithClub(user_question, club_info, coach_reply, bio_reply, so_far) ==
    LET fetch       == get_coach_for_club(club_info.club_qid, coach_reply)
        coach_event == Event("coach", club_info.club_qid, fetch.raised, fetch.value)
    IN  IF fetch.raised
        THEN TryResult(TRUE, <<>>, Append(so_far, coach_event))
        ELSE IF ~Truthy(fetch.value)
        THEN TryResult(FALSE, format_error_response(MsgNoCoach(club_info.club_name)),
                       Append(so_far, coach_event))
        ELSE AnswerWithCoach(user_question, club_info, fetch.value[1], bio_reply,
                             Append(so_far, coach_event))

\* the try block of process_query
process_query_try(cache, user_question, coach_reply, bio_reply) ==
    LET city_identifier == extract_city(user_question)
        extract_event   == Event("extract", user_question, FALSE, city_identifier)
    IN  IF ~Truthy(city_identifier)
        THEN TryResult(FALSE, format_error_response(MsgNoCity), <<extract_event>>)
        ELSE LET club_info     == find_club_by_city(cache, city_identifier[1])
                 resolve_event == Event("resolve", city_identifier[1], FALSE, club_info)
             IN  IF ~Truthy(club_info)
                 THEN TryResult(FALSE,
                                format_error_response(MsgNoClub(city_identifier[1])),
                                <<extract_event, resolve_event>>)
                 ELSE AnswerWithClub(user_question, club_info[1], coach_reply, bio_reply,
                                     <<extract_event, resolve_event>>)

\* process_query without its except clause
process_query_propagates(cache, user_question, coach_reply, bio_reply) ==
    LET body == process_query_try(cache, user_question, coach_reply, bio_reply)
    IN  CallResult(body.raised, body.ret, cache, body.events)

\* process_query whose except clause resets the cache, as the one of
\* initialize_clubs_data does
process_query_clears_cache(cache, user_question, coach_reply, bio_reply) ==
    LET body == process_query_try(cache, user_question, coach_reply, bio_reply)
    IN  IF body.raised
        THEN CallResult(FALSE, format_error_response(MsgUnexpected), None, body.events)
        ELSE CallResult(FALSE, body.ret, cache, body.events)

\* BundesligaCoachRAGChatbot.process_query: the try block and its except
\* clause.  escaped: an exception leaves process_query.
process_query(cache, user_question, coach_reply, bio_reply) ==
    LET body == process_query_try(cache, user_question, coach_reply, bio_reply)
    IN  IF body.raised
        THEN CallResult(FALSE, format_error_response(MsgUnexpected), cache, body.events)
        ELSE CallResult(FALSE, body.ret, cache, body.events)

(***************************************************************************)
(* The environment: the questions a user types and the replies of the two  *)
(* external services.                                                      *)
(***************************************************************************)
\* the longest list of rows a roster reply holds
MaxRows == 2

SeqsUpTo(S, n) == UNION {[1..k -> S] : k \in 0..n}

EntityUri(qid) == <<"http:", "/", "/", "www.wikidata.org", "/", "entity", "/">> \o qid

UnionBerlin == <<"1", ".", " ", "F", "C", " ", "U", "n", "i", "o", "n", " ", "B", "e", "r", "l", "i", "n">>
StPauli     == <<"F", "C", " ", "S", "t", ".", " ", "P", "a", "u", "l", "i">>
HamburgerSV == <<"H", "a", "m", "b", "u", "r", "g", "e", "r", " ", "S", "V">>
Berlin      == <<"B", "e", "r", "l", "i", "n">>
Hamburg     == <<"H", "a", "m", "b", "u", "r", "g">>
StPauliDistrict == <<"S", "t", ".", " ", "P", "a", "u", "l", "i">>

\* rows of the roster query: three clubs, Hamburger SV also with the
\* district St. Pauli as headquarters, and a row without a club label
ClubRows ==
    { ClubRow(Some(EntityUri(<<"Q", "1">>)), Some(UnionBerlin), Some(Berlin)),
      ClubRow(Some(EntityUri(<<"Q", "2">>)), Some(StPauli), Some(Hamburg)),
      ClubRow(Some(EntityUri(<<"Q", "3">>)), Some(HamburgerSV), Some(Hamburg)),
      ClubRow(Some(EntityUri(<<"Q", "3">>)), Some(HamburgerSV), Some(StPauliDistrict)),
      ClubRow(Some(EntityUri(<<"Q", "4">>)), None, Some(Berlin)) }

\* the roster query is SELECT DISTINCT: no row comes twice.  It also asks
\* for ORDER BY ?clubLabel, but the client keeps the rows in whatever order
\* the reply holds them, so a reply is any sequence of distinct rows.
Distinct(rows) == \A i, j \in 1..Len(rows) : rows[i] = rows[j] => i = j

\* the roster query raises, returns a body without results, or returns rows
RosterReplies ==
    { SparqlReply(TRUE, FALSE, <<>>), SparqlReply(FALSE, FALSE, <<>>) }
    \cup { SparqlReply(FALSE, TRUE, rows) :
             rows \in {r \in SeqsUpTo(ClubRows, MaxRows) : Distinct(r)} }

Baumgart == <<"S", "t", "e", "f", "f", "e", "n", " ", "B", "a", "u", "m", "g", "a", "r", "t">>
Blessin  == <<"A", "l", "e", "x", "a", "n", "d", "e", "r", " ", "B", "l", "e", "s", "s", "i", "n">>

\* the coach query raises, returns no row, a coach, or a row without label
CoachReplies ==
    { SparqlReply(TRUE, FALSE, <<>>),
      SparqlReply(FALSE, TRUE, <<>>),
      SparqlReply(FALSE, TRUE, <<CoachRow(Some(EntityUri(<<"Q", "1", "0">>)), Some(Baumgart))>>),
      SparqlReply(FALSE, TRUE, <<CoachRow(Some(EntityUri(<<"Q", "1", "1">>)), Some(Blessin))>>),
      SparqlReply(FALSE, TRUE, <<CoachRow(Some(EntityUri(<<"Q", "1", "2">>)), None)>>) }

Biography ==
    <<" ", "G", "e", "r", "m", "a", "n", " ", "f", "o", "o", "t", "b", "a", "l", "l", " ",
      "m", "a", "n", "a", "g", "e", "r", ".", " ">>

\* the article request times out, fails, or returns a body whose pages hold
\* the extract, no such article (-1), or an article without extract
BioReplies ==
    { WikiReply("timeout", <<>>),
      WikiReply("request_exception", <<>>),
      WikiReply("other_exception", <<>>),
      WikiReply("ok", <<Page(<<"7">>, Some(Biography))>>),
      WikiReply("ok", <<Page(<<"-", "1">>, None)>>),
      WikiReply("ok", <<Page(<<"7">>, Some(<<>>))>>) }

QBerlin  == <<"W", "h", "o", " ", "i", "s", " ", "c", "o", "a", "c", "h", "i", "n", "g", " ", "B", "e", "r", "l", "i", "n", "?">>
QPauli   == <<"W", "h", "o", " ", "i", "s", " ", "i", "t", " ", "f", "o", "r", " ", "P", "a", "u", "l", "i", "?">>
QNothing == <<"T", "e", "l", "l", " ", "m", "e", " ", "s", "o", "m", "e", "t", "h", "i", "n", "g">>
QHamburg == <<"W", "h", "a", "t", " ", "a", "b", "o", "u", "t", " ", "h", "a", "m", "b", "u", "r", "g", "?">>
QMunich  == <<" ", "W", "H", "O", " ", "I", "S", " ", "C", "O", "A", "C", "H", " ", "M", "u", "n", "i", "c", "h", " ">>

Questions == {QBerlin, QPauli, QNothing, QHamburg, QMunich}

\* the identifiers find_club_by_city is called with directly
Tokens ==
    { <<"p", "a", "u", "l", "i">>,
      <<"h", "a", "m", "b", "u", "r", "g">>,
      <<"b", "e", "r", "l", "i", "n">>,
      <<"m", "u", "n", "i", "c", "h">>,
      <<"B", "E", "R", "L", "I", "N">>,
      <<"B", "e", "r", "l", "i", "n">>,
      <<"P", "a", "u", "l", "i">>,
      <<"P", "A", "U", "L", "I">>,
      <<"H", "a", "m", "b", "u", "r", "g">>,
      <<"b", "e", "r", "l", "i", "n", "e", "r">> }

(***************************************************************************)
(* The state: the orchestrator's roster cache, main's success flag, and    *)
(* the last call made on the orchestrator: which operation, its argument,  *)
(* what it returned, whether an exception left it, and its events.         *)
(***************************************************************************)
VARIABLES clubs_cache, success, op, arg, ret, escaped, events

vars == <<clubs_cache, success, op, arg, ret, escaped, events>>

\* BundesligaCoachRAGChatbot.__init__, before main calls anything
Init ==
    /\ clubs_cache = None
    /\ success = None
    /\ op = "start"
    /\ arg = <<>>
    /\ ret = <<>>
    /\ escaped = FALSE
    /\ events = <<>>

\* rag_system.initialize_clubs_data()
Initialize ==
    \E reply \in RosterReplies :
        \E call \in {initialize_clubs_data(clubs_cache, reply)} :
            /\ clubs_cache' = call.cache
            /\ success' = Some(call.ret)
            /\ op' = "init"
            /\ arg' = <<>>
            /\ ret' = <<call.ret>>
            /\ escaped' = FALSE
            /\ events' = call.events

\* rag_system.process_query(user_input)
ProcessQuery ==
    \E user_question \in Questions, coach_reply \in CoachReplies, bio_reply \in BioReplies :
        \E call \in {process_query(clubs_cache, user_question, coach_reply, bio_reply)} :
            /\ clubs_cache' = call.cache
            /\ op' = "query"
            /\ arg' = user_question
            /\ ret' = call.ret
            /\ escaped' = call.escaped
            /\ events' = call.events
            /\ UNCHANGED success

\* rag_system.find_club_by_city(city_identifier)
FindClub ==
    \E city_identifier \in Tokens :
        /\ op' = "find"
        /\ arg' = city_identifier
        /\ ret' = find_club_by_city(clubs_cache, city_identifier)
        /\ escaped' = FALSE
        /\ events' = <<>>
        /\ UNCHANGED <<clubs_cache, success>>

Next == Initialize \/ ProcessQuery \/ FindClub

Spec == Init /\ [][Next]_vars

(***************************************************************************)
(* The components called on their own, as the orchestrator calls them:     *)
(* the extractor, the two Wikidata queries, the two Wikipedia clients and  *)
(* the prompt builder.  The orchestrator's cache plays no part.            *)
(***************************************************************************)
QHeidenheim  == <<"W", "h", "o", " ", "i", "s", " ", "h", "e", "i", "d", "e", "n", "h", "e", "i", "m", "s", " ", "m", "a", "n", "a", "g", "e", "r", "?">>
QInBerlin    == <<"I", "n", " ", "B", "e", "r", "l", "i", "n", " ", "w", "h", "o", " ", "i", "s", " ", "c", "o", "a", "c", "h", "i", "n", "g", " ", "U", "n", "i", "o", "n", "?">>
QAboutCoach  == <<"W", "h", "a", "t", " ", "a", "b", "o", "u", "t", " ", "t", "h", "e", " ", "c", "o", "a", "c", "h", " ", "i", "n", " ", "B", "e", "r", "l", "i", "n", "?">>
QForUnion    == <<"I", "s", " ", "i", "t", " ", "f", "o", "r", " ", "U", "n", "i", "o", "n", " ", "i", "n", " ", "B", "e", "r", "l", "i", "n", "?">>
QAboutBayern == <<"T", "e", "l", "l", " ", "m", "e", " ", "a", "b", "o", "u", "t", " ", "B", "a", "y", "e", "r", "n", "s", " ", "m", "a", "n", "a", "g", "e", "r">>
QManagerFor  == <<"W", "h", "o", " ", "i", "s", " ", "t", "h", "e", " ", "m", "a", "n", "a", "g", "e", "r", " ", "f", "o", "r", " ", "P", "a", "u", "l", "i", "?">>
QWinIn       == <<"W", "h", "o", " ", "w", "i", "l", "l", " ", "w", "i", "n", " ", "i", "n", " ", "B", "e", "r", "l", "i", "n", "?">>
QShouting    == <<"W", "H", "O", " ", "I", "S", " ", "C", "O", "A", "C", "H", "I", "N", "G", " ", " ", "B", "E", "R", "L", "I", "N", "?">>
QBochum      == <<"B", "o", "c", "h", "u", "m", "s", " ", " ", "M", "a", "n", "a", "g", "e", "r", "?">>
QTrainBerlin  == <<"t", "r", "a", "i", "n", " ", "b", "e", "r", "l", "i", "n">>
QBeforeMunich == <<"b", "e", "f", "o", "r", "e", " ", "m", "u", "n", "i", "c", "h">>

\* questions in which several patterns match, in either textual order, and
\* questions in which a keyword is only part of a longer word
ExtractQuestions ==
    Questions \cup { QHeidenheim, QInBerlin, QAboutCoach, QForUnion, QAboutBayern,
                     QManagerFor, QWinIn, QShouting, QBochum, QTrainBerlin,
                     QBeforeMunich }

\* rows of the roster query, also one without the club and one without
\* the city
ResultRows ==
    ClubRows \cup
    { ClubRow(None, Some(UnionBerlin), Some(Berlin)),
      ClubRow(Some(EntityUri(<<"Q", "1">>)), Some(UnionBerlin), None) }

ResultReplies ==
    { SparqlReply(TRUE, FALSE, <<>>), SparqlReply(FALSE, FALSE, <<>>) }
    \cup { SparqlReply(FALSE, TRUE, rows) :
             rows \in {r \in SeqsUpTo(ResultRows, MaxRows) : Distinct(r)} }

\* replies of the coach query, also a body without results
CoachResultReplies == CoachReplies \cup { SparqlReply(FALSE, FALSE, <<>>) }

\* what can happen to the request for an article
ArticleConditions ==
    { "timeout", "connection_error", "http_error", "not_json", "malformed",
      "not_found", "no_extract", "found" }

\* the lead text of an article: a biography, or only blanks
Leads == { Biography, <<" ", " ">> }

\* the condition as wikipedia_client.py meets it: requests.get raises
\* Timeout or ConnectionError, raise_for_status raises HTTPError,
\* response.json() raises, or the body comes back
MainReplyFor(condition, lead) ==
    CASE condition = "timeout" -> WikiReply("timeout", <<>>)
      [] condition \in {"connection_error", "http_error"} ->
             WikiReply("request_exception", <<>>)
      [] condition = "not_json" -> WikiReply("other_exception", <<>>)
      [] condition = "malformed" -> WikiReply("malformed", <<>>)
      [] condition = "not_found" -> WikiReply("ok", <<Page(<<"-", "1">>, None)>>)
      [] condition = "no_extract" -> WikiReply("ok", <<Page(<<"7">>, Some(<<>>))>>)
      [] condition = "found" -> WikiReply("ok", <<Page(<<"7">>, Some(lead))>>)

\* the condition as wikipedia_client_alternative.py meets it: the library
\* raises on every failure of the request, else tells whether the page
\* exists and gives its summary
AlternativePageFor(condition, lead) ==
    CASE condition \in {"timeout", "connection_error", "http_error", "not_json",
                        "malformed"} -> WikiPage(TRUE, FALSE, <<>>)
      [] condition = "not_found" -> WikiPage(FALSE, FALSE, <<>>)
      [] condition = "no_extract" -> WikiPage(FALSE, TRUE, <<>>)
      [] condition = "found" -> WikiPage(FALSE, TRUE, lead)

\* self.entity_extractor.extract_city(user_question)
ExtractCity ==
    \E user_question \in ExtractQuestions :
        /\ op' = "extract"
        /\ arg' = user_question
        /\ ret' = extract_city(user_question)
        /\ escaped' = FALSE
        /\ events' = <<>>
        /\ UNCHANGED <<clubs_cache, success>>

\* self.wikidata_client.get_bundesliga_clubs()
GetBundesligaClubs ==
    \E reply \in ResultReplies :
        \E call \in {get_bundesliga_clubs(reply)} :
            /\ op' = "clubs"
            /\ arg' = reply
            /\ ret' = call.value
            /\ escaped' = call.raised
            /\ events' = <<>>
            /\ UNCHANGED <<clubs_cache, success>>

\* self.wikidata_client.get_coach_for_club(club_qid)
GetCoachForClub ==
    \E reply \in CoachResultReplies :
        \E call \in {get_coach_for_club(<<"Q", "1">>, reply)} :
            /\ op' = "coach"
            /\ arg' = reply
            /\ ret' = call.value
            /\ escaped' = call.raised
            /\ events' = <<>>
            /\ UNCHANGED <<clubs_cache, success>>

\* self.wikipedia_client.get_coach_intro(coach_name), wikipedia_client.py
GetCoachIntro ==
    \E condition \in ArticleConditions, lead \in Leads :
        \E call \in {get_coach_intro(Baumgart, MainReplyFor(condition, lead))} :
            /\ op' = "intro"
            /\ arg' = <<condition, lead>>
            /\ ret' = call.value
            /\ escaped' = call.raised
            /\ events' = <<>>
            /\ UNCHANGED <<clubs_cache, success>>

\* self.wikipedia_client.get_coach_intro(coach_name),
\* wikipedia_client_alternative.py
GetCoachIntroAlternative ==
    \E condition \in ArticleConditions, lead \in Leads :
        \E call \in {get_coach_intro_alternative(Baumgart,
                                                 AlternativePageFor(condition, lead))} :
            /\ op' = "intro_alternative"
            /\ arg' = <<condition, lead>>
            /\ ret' = call.value
            /\ escaped' = call.raised
            /\ events' = <<>>
            /\ UNCHANGED <<clubs_cache, success>>

\* self.prompt_builder.build_prompt(...)
BuildPrompt ==
    \E user_question \in {QBerlin, QMunich, QShouting},
       club_name \in {UnionBerlin, StPauli},
       city \in {Berlin, Hamburg},
       coach_name \in {Baumgart, Blessin},
       coach_intro \in {None, Some(<<>>), Some(Strip(Biography))} :
        /\ op' = "prompt"
        /\ arg' = <<user_question, club_name, city, coach_name, coach_intro>>
        /\ ret' = build_prompt(user_question, club_name, city, coach_name, coach_intro)
        /\ escaped' = FALSE
        /\ events' = <<>>
        /\ UNCHANGED <<clubs_cache, success>>

ComponentNext ==
    \/ ExtractCity
    \/ GetBundesligaClubs
    \/ GetCoachForClub
    \/ GetCoachIntro
    \/ GetCoachIntroAlternative
    \/ BuildPrompt

ComponentSpec == Init /\ [][ComponentNext]_vars

(***************************************************************************)
(* Reading the last call: what kind of string it returned and which        *)
(* component calls it made.                                                *)
(***************************************************************************)
\* a string build_prompt rendered: it opens with the system prompt
IsRenderedPrompt(text) == StartsWithAt(text, 1, get_system_prompt)

\* a string _format_error_response built
IsErrorResponse(text) == StartsWithAt(text, 1, <<"ERROR: ">>)

\* the error response of step 2 of process_query, for whatever identifier
IsResolutionMiss(text) ==
    StartsWithAt(text, 1, <<"ERROR: ", "Dear user, I could not find a Bundesliga club for '">>)

\* the order of the steps in the body of process_query
StageOrder == <<"extract", "resolve", "coach", "bio", "render">>

\* a component call that raised, or returned None or an empty value
Absent(event) == event.raised \/ ~Truthy(event.out)

\* how many calls of one stage the last operation made
Count(stage) == Cardinality({i \in 1..Len(events) : events[i].stage = stage})

PauliToken == <<"p", "a", "u", "l", "i">>

(***************************************************************************)
(* Properties                                                              *)
(***************************************************************************)
\* C1: process_query never lets an exception escape: whatever the stages
\* do (no token, no club, the coach fetch returning a coach, nothing, or
\* raising, the biography fetch returning text or nothing) it returns a
\* string, which is a rendered prompt or a formatted error response.
NoExceptionEscapes ==
    op = "query" => (~escaped /\ (IsRenderedPrompt(ret) \/ IsErrorResponse(ret)))

\* a query whose coach fetch raised came back with the generic error string
CoachFetchRaisedAndWasCaught ==
    /\ op = "query"
    /\ Len(events) = 3
    /\ events[3].stage = "coach"
    /\ events[3].raised
    /\ ~escaped
    /\ ret = format_error_response(MsgUnexpected)

\* C2: a process_query called while the roster cache is None or empty is
\* refused with a setup failure: the string it returns is no rendered
\* prompt, not the extraction-miss message and not the unresolved-token
\* message.
RefusedWithSetupFailure ==
    (op = "query" /\ ~Truthy(clubs_cache)) =>
        /\ ~IsRenderedPrompt(ret)
        /\ ret # format_error_response(MsgNoCity)
        /\ ~IsResolutionMiss(ret)

\* C3: the calls of one process_query are a prefix of extraction, club
\* resolution, coach fetch, biography fetch, prompt render; the run stops
\* at the first of token, club and coach that is absent and only there, so
\* the coach fetch follows a token and a club, the biography fetch follows
\* a coach, and no fetch is made when extraction or resolution fails or the
\* roster is empty or absent.
StagesInOrder ==
    op = "query" =>
        LET n == Len(events)
        IN  /\ n \in 1..5
            /\ \A i \in 1..n : events[i].stage = StageOrder[i]
            /\ \A i \in 1..n : (i <= 3 /\ Absent(events[i])) => n = i
            /\ n < 5 => (n <= 3 /\ Absent(events[n]))
            /\ ~Truthy(clubs_cache) => (Count("coach") = 0 /\ Count("bio") = 0)
            /\ extract_city(arg) = None => n = 1

\* a query on a loaded roster that stopped at resolution: no fetch was made
StoppedAtResolution ==
    /\ op = "query"
    /\ Truthy(clubs_cache)
    /\ Len(events) = 2
    /\ events[2].stage = "resolve"
    /\ events[2].out = None
    /\ IsResolutionMiss(ret)

\* C4: when extraction, resolution and the coach fetch succeed the result
\* is a rendered prompt whatever the biography fetch did (text, nothing, a
\* timeout, a failure); without a biography the prompt still holds the
\* city, the club name, the coach name and the no-biography sentence.
BiographyNeverDecides ==
    (op = "query" /\ Len(events) >= 3 /\ ~Absent(events[3])) =>
        /\ IsRenderedPrompt(ret)
        /\ Len(events) = 5
        /\ ~Truthy(events[4].out) =>
               LET club_info  == events[2].out[1]
                   coach_info == events[3].out[1]
               IN  /\ IsSubstr(<<"City: ">> \o club_info.city \o <<NL>>, ret)
                   /\ IsSubstr(<<"Club: ">> \o club_info.club_name \o <<NL>>, ret)
                   /\ IsSubstr(<<"Current Coach: ">> \o coach_info.name \o <<NL>>, ret)
                   /\ IsSubstr(<<NoBiographySentence>>, ret)

\* a prompt rendered although the biography fetch returned nothing
PromptWithoutBiography ==
    /\ op = "query"
    /\ Len(events) = 5
    /\ events[4].stage = "bio"
    /\ events[4].out = None
    /\ IsRenderedPrompt(ret)
    /\ IsSubstr(<<NoBiographySentence>>, ret)

\* C5: every query makes at most one coach fetch and at most one biography
\* fetch (nothing is retried), and a query that returns a rendered prompt
\* made exactly one of each and renders what these two fetches of its own
\* returned.
OneFetchEachPerQuery ==
    op = "query" =>
        /\ Count("coach") <= 1
        /\ Count("bio") <= 1
        /\ IsRenderedPrompt(ret) =>
               /\ Count("coach") = 1
               /\ Count("bio") = 1
               /\ IsSubstr(<<"Current Coach: ">> \o events[3].out[1].name \o <<NL>>, ret)
               /\ IF Truthy(events[4].out)
                  THEN IsSubstr(<<"Coach Information from Wikipedia:", NL>>
                                  \o events[4].out[1] \o <<NL>>, ret)
                  ELSE IsSubstr(<<NoBiographySentence>>, ret)

\* a prompt that renders the biography this query fetched
PromptWithFetchedBiography ==
    /\ op = "query"
    /\ IsRenderedPrompt(ret)
    /\ Count("coach") = 1
    /\ Count("bio") = 1
    /\ Truthy(events[4].out)

\* C6: only initialization writes the roster cache: a process_query or a
\* find_club_by_city, whatever the question and the outcome, fetches no
\* roster and leaves clubs_cache, contents and order, as it was, so the
\* cache stays what the last initialization set.
CacheWrittenOnlyByInitialization ==
    [][op' # "init" =>
          /\ clubs_cache' = clubs_cache
          /\ \A i \in 1..Len(events') : events'[i].stage # "roster"]_vars

\* a query answered from a cache of two clubs, which is still there
AnsweredFromTwoClubCache ==
    /\ op = "query"
    /\ IsRenderedPrompt(ret)
    /\ Truthy(clubs_cache)
    /\ Len(clubs_cache[1]) = 2
    /\ Count("roster") = 0

\* C7: initialize_clubs_data returns True exactly when the roster fetch
\* did not raise and gave at least one club, and the cache is then the
\* fetched list; otherwise it returns False, the cache is None or empty
\* and find_club_by_city resolves no identifier.
InitializeReportsRoster ==
    op = "init" =>
        LET fetch == events[1]
        IN  /\ fetch.stage = "roster"
            /\ ret[1] = (~fetch.raised /\ fetch.out[1] # <<>>)
            /\ success = Some(ret[1])
            /\ ret[1] => clubs_cache = fetch.out
            /\ ~ret[1] =>
                   /\ ~Truthy(clubs_cache)
                   /\ \A city_identifier \in Tokens :
                          find_club_by_city(clubs_cache, city_identifier) = None

\* an initialization whose fetch raised: False, and the cache is None
FetchRaisedOnInitialize ==
    /\ op = "init"
    /\ events[1].raised
    /\ ret = <<FALSE>>
    /\ clubs_cache = None

\* C8: once initialization has failed the session is in a terminal Failed
\* state: no later operation, a further initialize call or a query, brings
\* the system to Ready or produces a rendered prompt.
FailedIsTerminal ==
    [][success = Some(FALSE) =>
          /\ ~Truthy(clubs_cache')
          /\ ~(op' = "query" /\ IsRenderedPrompt(ret'))]_vars

\* C8 as amended: as long as the last initialize_clubs_data call returned
\* False the cache is None or empty, find_club_by_city resolves nothing and
\* no query returns a rendered prompt; queries never change that, only a
\* later initialize_clubs_data call that succeeds does.
FailedUntilInitializeSucceeds ==
    success = Some(FALSE) =>
        /\ ~Truthy(clubs_cache)
        /\ op = "query" => (IsErrorResponse(ret) /\ Len(events) <= 2)
        /\ op = "find" => ret = None

\* a question with a known city asked after a failed initialization
AskedAfterFailedInitialize ==
    /\ success = Some(FALSE)
    /\ op = "query"
    /\ Len(events) = 2
    /\ IsResolutionMiss(ret)

\* C9: a query that ends in an error (no token, no club, no coach, a
\* retrieval error, anything unexpected) is not fatal: no exception leaves
\* it and it leaves the roster cache and the initialization result as they
\* were, so the system is as ready for the next question as before.
QueryErrorsAreNotFatal ==
    [][(op' = "query" /\ ~IsRenderedPrompt(ret')) =>
          /\ ~escaped'
          /\ IsErrorResponse(ret')
          /\ clubs_cache' = clubs_cache
          /\ success' = success]_vars

\* a retrieval error on a ready system, which is ready afterwards
ReadyAfterRetrievalError ==
    /\ op = "query"
    /\ ret = format_error_response(MsgUnexpected)
    /\ success = Some(TRUE)
    /\ Truthy(clubs_cache)

\* C10: when the roster, in whatever order, holds a club whose name
\* contains "pauli", the identifier "pauli" resolves to such a club even if
\* an earlier club matches it by city or name; the question "Who is it for
\* Pauli?" gives that identifier and resolves to FC St. Pauli, never to
\* Hamburger SV.
PauliResolvesToPauliClub ==
    LET asked    == \/ op = "find" /\ arg = PauliToken
                    \/ op = "query" /\ Len(events) >= 2 /\ events[2].arg = PauliToken
        resolved == IF op = "find" THEN ret ELSE events[2].out
        listed   == /\ Truthy(clubs_cache)
                    /\ \E i \in 1..Len(clubs_cache[1]) :
                           IsSubstr(PauliToken, Lower(clubs_cache[1][i].club_name))
    IN  /\ (op = "query" /\ arg = QPauli) => events[1].out = Some(PauliToken)
        /\ (asked /\ listed) =>
               /\ Truthy(resolved)
               /\ IsSubstr(PauliToken, Lower(resolved[1].club_name))
               /\ resolved[1].club_name = StPauli
               /\ \E i \in 1..Len(clubs_cache[1]) : resolved[1] = clubs_cache[1][i]

\* the question about Pauli on a roster whose first club, Hamburger SV,
\* matches "pauli" by its city: FC St. Pauli was resolved
PauliBehindHamburgerSV ==
    /\ op = "query"
    /\ arg = QPauli
    /\ Truthy(clubs_cache)
    /\ Len(clubs_cache[1]) = 2
    /\ clubs_cache[1][1].club_name = HamburgerSV
    /\ ClubMatches(clubs_cache[1][1], PauliToken)
    /\ Len(events) >= 2
    /\ Truthy(events[2].out)
    /\ events[2].out[1].club_name = StPauli

HamburgToken == <<"h", "a", "m", "b", "u", "r", "g">>

\* the identifier the last call resolved and the club it got: of a direct
\* find_club_by_city, or of step 2 of a process_query that reached it
ResolvedToken == IF op = "find" THEN arg ELSE events[2].arg
ResolvedClub == IF op = "find" THEN ret ELSE events[2].out
HasResolved == op = "find" \/ (op = "query" /\ Len(events) >= 2)

\* C11: find_club_by_city is case-insensitive in the identifier: whatever
\* the roster, an identifier resolves to the club its lowercased form
\* resolves to ("BERLIN" and "Berlin" like "berlin", "Pauli" like "pauli").
ResolutionIgnoresCase ==
    op = "find" => ret = find_club_by_city(clubs_cache, Lower(arg))

\* C12: when the roster holds FC St. Pauli and Hamburger SV, both with the
\* city Hamburg, in whatever order, the identifier "hamburg" resolves to
\* Hamburger SV.
HamburgResolvesToHamburgerSV ==
    LET listed(name) ==
            \E i \in 1..Len(clubs_cache[1]) :
                /\ clubs_cache[1][i].club_name = name
                /\ clubs_cache[1][i].city = Hamburg
    IN  ( /\ HasResolved
          /\ ResolvedToken = HamburgToken
          /\ Truthy(clubs_cache)
          /\ listed(StPauli)
          /\ listed(HamburgerSV) ) =>
            /\ Truthy(ResolvedClub)
            /\ ResolvedClub[1].club_name = HamburgerSV

\* what each of the five patterns, in the order of _extract_entity_logic,
\* gives on a normalized question
PatternMatches(text) ==
    << SearchFrom([i \in 1..Len(text) |-> CoachAt(text, i)]),
       SearchFrom([i \in 1..Len(text) |-> AboutAt(text, i)]),
       SearchFrom([i \in 1..Len(text) |-> ManagerAt(text, i)]),
       SearchFrom([i \in 1..Len(text) |-> ForAt(text, i)]),
       SearchFrom([i \in 1..Len(text) |-> InAt(text, i)]) >>

ManagerPatternDropsPossessive ==
    /\ (op = "extract" /\ arg = QHeidenheim) =>
           ret = Some(<<"h", "e", "i", "d", "e", "n", "h", "e", "i", "m">>)
    /\ (op = "extract" /\ arg = QBochum) => ret = Some(<<"b", "o", "c", "h", "u", "m">>)

\* C15: each failure has its own message, chosen by the first stage that
\* fails: no token, the guidance message (with the example questions); a
\* token that matches no cached club, the message naming the token; a
\* coach fetch that returns no coach, the message naming the club; a coach
\* fetch that raises, the generic apology.
OwnMessagePerFailure ==
    op = "query" =>
        LET n    == Len(events)
            last == events[n]
        IN  /\ (n = 1 /\ Absent(last)) =>
                   /\ ret = format_error_response(MsgNoCity)
                   /\ IsSubstr(<<"Examples of valid questions:", NL>>, ret)
            /\ n = 2 =>
                   /\ IsResolutionMiss(ret)
                   /\ StartsWithAt(ret, 3, last.arg)
                   /\ ret = format_error_response(MsgNoClub(last.arg))
            /\ (n = 3 /\ ~last.raised) =>
                   /\ StartsWithAt(ret, 1,
                          <<"ERROR: ", "Could not find current coach information for ">>
                            \o events[2].out[1].club_name)
                   /\ ret # format_error_response(MsgUnexpected)
            /\ (n = 3 /\ last.raised) => ret = format_error_response(MsgUnexpected)

\* a coach query without rows for a resolved club: the message names the club
CoachMissNamesClub ==
    /\ op = "query"
    /\ Len(events) = 3
    /\ ~events[3].raised
    /\ events[3].out = None
    /\ events[2].out[1].club_name = UnionBerlin
    /\ ret = format_error_response(MsgNoCoach(UnionBerlin))

\* C16: neither biography client raises: get_coach_intro of both gives
\* None on a timeout, a transport error, an HTTP error, a body that is no
\* JSON or not the expected structure, a missing article and an article
\* without lead, and the trimmed lead otherwise; in each condition the two
\* give the same.
BiographyClientsNeverRaise ==
    op \in {"intro", "intro_alternative"} =>
        /\ ~escaped
        /\ ret = IF arg[1] = "found" THEN Some(Strip(arg[2])) ELSE None

\* the body was no JSON: wikipedia_client.py returned None
NotJsonGaveNone ==
    /\ op = "intro"
    /\ arg[1] = "not_json"
    /\ ~escaped
    /\ ret = None

\* text ends with tail
EndsWith(text, tail) ==
    /\ Len(tail) <= Len(text)
    /\ StartsWithAt(text, Len(text) - Len(tail) + 1, tail)

\* the parts occur in text one after the other, from position from on
RECURSIVE OccurInOrder(_, _, _)
OccurInOrder(parts, text, from) ==
    \/ parts = <<>>
    \/ \E i \in from..(Len(text) - Len(parts[1]) + 1) :
           /\ StartsWithAt(text, i, parts[1])
           /\ OccurInOrder(Tail(parts), text, i + Len(parts[1]))

\* C17: the output of build_prompt holds, in this order, the system
\* prompt, the city, the club, the coach, the biography or else the
\* no-biography sentence, and then the question as it was passed in: not
\* truncated, not re-cased, not trimmed.
PromptPartsInOrder ==
    op = "prompt" =>
        LET biography ==
                IF Truthy(arg[5])
                THEN <<"Coach Information from Wikipedia:", NL>> \o arg[5][1]
                ELSE <<NoBiographySentence>>
        IN  /\ StartsWithAt(ret, 1, get_system_prompt)
            /\ OccurInOrder(<< get_system_prompt,
                               <<"City: ">> \o arg[3] \o <<NL>>,
                               <<"Club: ">> \o arg[2] \o <<NL>>,
                               <<"Current Coach: ">> \o arg[4] \o <<NL>>,
                               biography \o <<NL>>,
                               <<"USER QUESTION:", NL>> \o arg[1] \o <<NL>> >>,
                            ret, 1)

\* a prompt for a question in capitals with outer blanks, without biography
PromptKeepsQuestionAsTyped ==
    /\ op = "prompt"
    /\ arg[1] = QMunich
    /\ arg[5] = None
    /\ IsSubstr(<<"USER QUESTION:", NL>> \o QMunich \o <<NL>>, ret)

\* C18: a rendered prompt ends with the line "USER QUESTION:", a newline
\* and the question: nothing follows the question.
PromptEndsWithQuestion ==
    op = "prompt" => EndsWith(ret, <<"USER QUESTION:", NL>> \o arg[1])

\* C18 as amended: a rendered prompt ends with the line "USER QUESTION:",
\* a newline, the question, an empty line and the fixed closing
\* instruction; nothing else follows the question.
PromptEndsWithClosingInstruction ==
    op = "prompt" =>
        EndsWith(ret,
                 <<NL, "USER QUESTION:", NL>> \o arg[1]
                   \o <<NL, NL, "Please answer the user's question using the provided context.">>)

\* the prompt for "Who is coaching Berlin?" with a biography
BerlinPromptRendered ==
    /\ op = "prompt"
    /\ arg[1] = QBerlin
    /\ arg[4] = Baumgart
    /\ Truthy(arg[5])
    /\ IsSubstr(<<"Current Coach: ">> \o Baumgart, ret)

\* C19: the clubs of a roster get_bundesliga_clubs returns are unique by
\* club_qid, whatever rows the query gives, also when a club comes in
\* several rows with different cities.
UniqueClubQid ==
    (op = "clubs" /\ ~escaped) =>
        \A i, j \in 1..Len(ret) : ret[i].club_qid = ret[j].club_qid => i = j

\* C20: malformed rows abort nothing: when the roster query succeeds the
\* result is, in response order, exactly the rows that have a club label
\* and a club identifier (none is an empty list, not an error); when the
\* coach query succeeds without a row, or with a row without coach label,
\* the result is None and nothing is raised.
MalformedRowsAreDropped ==
    /\ (op = "clubs" /\ ~arg.error) =>
           LET Complete(binding) ==
                   ValueOf(binding.clubLabel) # <<>> /\ ValueOf(binding.club) # <<>>
               kept == IF arg.has_results THEN SelectSeq(arg.bindings, Complete)
                       ELSE <<>>
           IN  /\ ~escaped
               /\ Len(ret) = Len(kept)
               /\ \A i \in 1..Len(kept) :
                      /\ ret[i].club_name = kept[i].clubLabel[1]
                      /\ ret[i].club_uri = kept[i].club[1]
    /\ (op = "coach" /\ ~arg.error) =>
           /\ ~escaped
           /\ (arg.bindings = <<>> \/ ValueOf(arg.bindings[1].coachLabel) = <<>>) =>
                  ret = None
           /\ (arg.bindings # <<>> /\ ValueOf(arg.bindings[1].coachLabel) # <<>>) =>
                  (ret # None /\ ret[1].name = arg.bindings[1].coachLabel[1])

\* a row without club label before a complete row: only the second is kept
MalformedRowDroppedBeforeKeptRow ==
    /\ op = "clubs"
    /\ ~arg.error
    /\ Len(arg.bindings) = 2
    /\ arg.bindings[1].clubLabel = None
    /\ ~escaped
    /\ Len(ret) = 1
    /\ ret[1].club_name = arg.bindings[2].clubLabel[1]

KeywordsAreWholeWords ==
    op = "extract" =>
        LET text == Strip(Lower(arg))
            starts == {i \in 1..Len(text) : i = 1 \/ ~IsWordChar(text[i - 1])}
            found ==
                << SearchFrom([i \in starts |-> CoachAt(text, i)]),
                   SearchFrom([i \in starts |-> AboutAt(text, i)]),
                   SearchFrom([i \in 1..Len(text) |-> ManagerAt(text, i)]),
                   SearchFrom([i \in starts |-> ForAt(text, i)]),
                   SearchFrom([i \in starts |-> InAt(text, i)]) >>
            matching == {k \in 1..5 : found[k] # None}
        IN  /\ ret = IF matching = {} THEN None
                     ELSE found[CHOOSE k \in matching : \A j \in matching : k <= j]
            /\ ret # None =>
                   \E i \in starts :
                       /\ StartsWithAt(text, i, ret[1])
                       /\ WordRun(text, i) = Len(ret[1])

\* C23: a rendered prompt is consistent with one run of process_query: the
\* identifier resolved is the one extracted from this question, the club
\* is a record of the roster, the coach fetch was made for the club_qid of
\* that club, the biography fetch for the name of the coach that fetch
\* returned, and the prompt is the rendering of this question with the
\* city and the name of that club, the name of that coach and the
\* biography that fetch returned.
PromptFromOneRun ==
    (op = "query" /\ IsRenderedPrompt(ret)) =>
        /\ Len(events) = 5
        /\ [i \in 1..5 |-> events[i].stage] = StageOrder
        /\ events[1].arg = arg
        /\ events[2].arg = events[1].out[1]
        /\ Truthy(clubs_cache)
        /\ \E i \in 1..Len(clubs_cache[1]) : clubs_cache[1][i] = events[2].out[1]
        /\ events[3].arg = events[2].out[1].club_qid
        /\ events[4].arg = events[3].out[1].name
        /\ OccurInOrder(<< <<"City: ">> \o events[2].out[1].city \o <<NL>>,
                           <<"Club: ">> \o events[2].out[1].club_name \o <<NL>>,
                           <<"Current Coach: ">> \o events[3].out[1].name \o <<NL>> >>,
                        ret, 1)
        /\ ret = build_prompt(arg, events[2].out[1].club_name, events[2].out[1].city,
                              events[3].out[1].name, events[4].out)

\* a prompt for the second club of a roster of two different clubs
PromptForSecondRosterEntry ==
    /\ op = "query"
    /\ IsRenderedPrompt(ret)
    /\ Truthy(clubs_cache)
    /\ Len(clubs_cache[1]) = 2
    /\ clubs_cache[1][1].club_name # clubs_cache[1][2].club_name
    /\ events[2].out = Some(clubs_cache[1][2])
    /\ events[3].arg = clubs_cache[1][2].club_qid
    /\ IsSubstr(<<"Club: ">> \o clubs_cache[1][2].club_name \o <<NL>>, ret)
    /\ ~IsSubstr(<<"Club: ">> \o clubs_cache[1][1].club_name \o <<NL>>, ret)

\* C24: substring matching in resolution has no empty operand: the
\* identifier extract_city hands to process_query, and process_query to
\* find_club_by_city, is a non-empty word without capitals, and every club
\* of a roster get_bundesliga_clubs returns has a non-empty name, a
\* non-empty club_qid and a non-empty city, the city of a row without city
\* being "Unknown"; lowercased, as find_club_by_city compares them, name
\* and city are still non-empty.
NoEmptyOperand ==
    /\ (op = "extract" /\ ret # None) =>
           /\ ret[1] # <<>>
           /\ ret[1] = Lower(ret[1])
           /\ \A i \in 1..Len(ret[1]) : IsWordChar(ret[1][i])
    /\ (op = "clubs" /\ ~escaped) =>
           LET Complete(binding) ==
                   ValueOf(binding.clubLabel) # <<>> /\ ValueOf(binding.club) # <<>>
               kept == IF arg.has_results THEN SelectSeq(arg.bindings, Complete)
                       ELSE <<>>
           IN  /\ Len(ret) = Len(kept)
               /\ \A i \in 1..Len(ret) :
                      /\ ret[i].club_name # <<>>
                      /\ ret[i].club_qid # <<>>
                      /\ ret[i].city # <<>>
                      /\ Lower(ret[i].club_name) # <<>>
                      /\ Lower(ret[i].city) # <<>>
                      /\ ret[i].city =
                             IF ValueOf(kept[i].cityLabel) = <<>>
                             THEN <<"U", "n", "k", "n", "o", "w", "n">>
                             ELSE kept[i].cityLabel[1]

\* a roster with a club whose row had no city: the city is "Unknown"
ClubWithoutCityIsUnknown ==
    /\ op = "clubs"
    /\ ~escaped
    /\ Len(arg.bindings) = 1
    /\ arg.bindings[1].cityLabel = None
    /\ Len(ret) = 1
    /\ ret[1].club_name = UnionBerlin
    /\ ret[1].city = <<"U", "n", "k", "n", "o", "w", "n">>

====
